---- MODULE Spec2Model ----
(***************************************************************************)
(* Model of src/main.py: the FastAPI handler generate_notifications, its   *)
(* retry loop around client.models.generate_content, and the event loop    *)
(* of the server process that runs the (async def) handler.                *)
(*                                                                         *)
(* Strings are sequences of one-character strings, so that the substring   *)
(* test `code in error_msg` is computed and not assumed.  Times are in     *)
(* milliseconds.  A response body is a sequence of JSON tokens.            *)
(***************************************************************************)
EXTENDS Integers, Sequences, FiniteSets, TLC

VARIABLES pc, attempt, calls, sleeps, log, result, snapshot, loop

vars == <<pc, attempt, calls, sleeps, log, result, snapshot, loop>>

(***************************************************************************)
(* Bounds of the model.                                                    *)
(***************************************************************************)
NumRequests == 2
MaxDrafts == 4
MaxPayments == 1
MaxVideos == 1
MaxMsgLen == 4

(***************************************************************************)
(* Program constants (lines 98-100 of main.py).                            *)
(***************************************************************************)
max_retries_plus_one == 3 + 1
max_retries == 3

base_delay == 1000

retry_codes ==
    { <<"4", "2", "9">>, <<"5", "0", "0">>, <<"5", "0", "3">>, <<"5", "0", "4">> }

\* random.uniform(0, 0.5): sampled values of the jitter, in milliseconds.
Jitter_up_to_one_second == {0, 250, 500, 1000}
Jitter == {0, 250, 500}

\* The "enum" of the response_schema handed to the collaborator.
DraftTypes == <<"milestone", "reminder", "alert", "promotion", "engagement">>

(***************************************************************************)
(* Request input: LearnerRequest.  payments and videos are dicts; a dict   *)
(* is modelled by the sequence of its values in insertion order, a payment *)
(* by its courseId and a video by its completion.                          *)
(***************************************************************************)
Completions == {0, 50}
CourseIds == {43}

SeqsUpTo(S, n) == UNION { [1..k -> S] : k \in 0..n }

LearnerRequest ==
    [payments : SeqsUpTo(CourseIds, MaxPayments),
     videos : SeqsUpTo(Completions, MaxVideos)]

(***************************************************************************)
(* The Analysis Rules of system_instruction (lines 81-87) and the payload  *)
(* they are sent with.  The handler derives no event itself: it hands the  *)
(* rules and the serialised snapshot to the collaborator.                  *)
(***************************************************************************)
MaxCompletion == 100

\* Rule 2: "If 'completion' is > 0 and < 100, create a 'reminder'".
ResumeWatching_inclusive(completion) == completion > 0 /\ completion <= 100
ResumeWatching(completion) == completion > 0 /\ completion < 100

\* Rule 3: "If 'completion' is 100, create a 'milestone'".
CompletionCelebration(completion) == completion = 100

\* Rule 4: "If 'completion' is 0, create an 'engagement' nudge".
StartWatching(completion) == completion = 0

\* Rule 5: "If ANY payment entry exists, you MUST create a 'promotion'".
CourseActivity(payments) == payments # <<>>

\* Rule 6: "If completion is between 90-99%, mark 'sendNow' as true (Urgent)".
UrgencyLogic(completion) == completion >= 90 /\ completion <= 99

\* The rules that apply to one video entry, with the priority and the
\* notification type the instruction gives them.
VideoRules(completion) ==
    { ru \in { [rule |-> "Resume Watching", priority |-> "High", type |-> "reminder"],
               [rule |-> "Completion Celebration", priority |-> "Medium", type |-> "milestone"],
               [rule |-> "Start Watching", priority |-> "Low", type |-> "engagement"] } :
        \/ ru.rule = "Resume Watching" /\ ResumeWatching(completion)
        \/ ru.rule = "Completion Celebration" /\ CompletionCelebration(completion)
        \/ ru.rule = "Start Watching" /\ StartWatching(completion) }

\* The promotions rule 5 asks for; the rule names no priority.
PaymentRules_per_entry(payments) ==
    { [rule |-> "Course Activity", priority |-> "", type |-> "promotion", entry |-> i] :
        i \in 1..Len(payments) }
PaymentRules(payments) ==
    IF CourseActivity(payments)
      THEN { [rule |-> "Course Activity", priority |-> "", type |-> "promotion", entry |-> 1] }
      ELSE {}

\* json.dumps(data.model_dump()): the fields in the order of their
\* declaration in LearnerRequest, each dict in its insertion order.
payload_str_videos_first(data) ==
    [i \in 1..(Len(data.payments) + Len(data.videos)) |->
        IF i <= Len(data.videos)
          THEN [field |-> "videos", value |-> data.videos[i]]
          ELSE [field |-> "payments", value |-> data.payments[i - Len(data.videos)]]]
payload_str(data) ==
    [i \in 1..(Len(data.payments) + Len(data.videos)) |->
        IF i <= Len(data.payments)
          THEN [field |-> "payments", value |-> data.payments[i]]
          ELSE [field |-> "videos", value |-> data.videos[i - Len(data.payments)]]]

(***************************************************************************)
(* Strings.                                                                *)
(***************************************************************************)
\* `sub in s` of Python for strings.
Contains_at_start(sub, s) == Len(s) >= Len(sub) /\ SubSeq(s, 1, Len(sub)) = sub
Contains(sub, s) ==
    \E i \in 1..(Len(s) - Len(sub) + 1) : SubSeq(s, i, i + Len(sub) - 1) = sub

DigitChar == <<"0", "1", "2", "3", "4", "5", "6", "7", "8", "9">>

RECURSIVE Digits(_)
\* str(n) for a natural number n.
Digits(n) ==
    IF n < 10 THEN <<DigitChar[n + 1]>>
    ELSE Digits(n \div 10) \o <<DigitChar[(n % 10) + 1]>>

(***************************************************************************)
(* The collaborator: client.models.generate_content.  It either raises an  *)
(* error with a message, or returns a response whose text is a JSON array  *)
(* shaped by the response_schema, possibly cut short, or has no text.      *)
(***************************************************************************)
ErrorMsgs ==
    { <<"4", "2", "9", " ", "R", "E", "S">>,
      <<"5", "0", "0", " ", "I", "N", "T">>,
      <<"5", "0", "3">>,
      <<"E", "5", "0", "4", "!">>,
      <<"i", "n", " ", "1", "5", "0", "0", "m", "s">>,
      <<"4", "0", "0", " ", "I", "N", "V">>,
      <<"4", "0", "1">>,
      <<"4", "2", " ", "9">>,
      <<>> }

Draft(i) ==
    [id |-> Digits(i), title |-> <<"T">>, body |-> <<"B">>,
     sendNow |-> (i % 2 = 0), type |-> DraftTypes[((i - 1) % Len(DraftTypes)) + 1]]

TokOpen == [tok |-> "[", val |-> <<>>]
TokClose == [tok |-> "]", val |-> <<>>]
TokComma == [tok |-> ",", val |-> <<>>]
TokObject(d) == [tok |-> "object", val |-> <<d>>]

RECURSIVE Elements(_)
\* The tokens between the brackets of an array of n drafts.
Elements(n) ==
    IF n = 0 THEN <<>>
    ELSE IF n = 1 THEN <<TokObject(Draft(1))>>
    ELSE Elements(n - 1) \o <<TokComma, TokObject(Draft(n))>>

ArrayText(n) == <<TokOpen>> \o Elements(n) \o <<TokClose>>

WellFormedTexts == { ArrayText(n) : n \in 0..MaxDrafts }

TruncatedTexts ==
    { SubSeq(t, 1, k) : t \in {ArrayText(2)}, k \in 0..(Len(ArrayText(2)) - 1) }

NoText == <<[tok |-> "None", val |-> <<>>]>>

Texts == WellFormedTexts \cup TruncatedTexts \cup {NoText}

\* Character offsets at which json.loads may report a cut-short body.
ErrOffsets == {17, 428}

(***************************************************************************)
(* json.loads(response.text)                                               *)
(***************************************************************************)
ExpectingValue ==
    <<"E", "x", "p", "e", "c", "t", "i", "n", "g", " ", "v", "a", "l", "u", "e",
      ":", " ", "l", "i", "n", "e", " ", "1", " ", "c", "o", "l", "u", "m", "n", " ">>

ExpectingDelimiter ==
    <<"E", "x", "p", "e", "c", "t", "i", "n", "g", " ", "'", ",", "'", " ",
      "d", "e", "l", "i", "m", "i", "t", "e", "r", ":", " ", "l", "i", "n", "e",
      " ", "1", " ", "c", "o", "l", "u", "m", "n", " ">>

NotNoneType ==
    <<"t", "h", "e", " ", "J", "S", "O", "N", " ", "o", "b", "j", "e", "c", "t",
      " ", "m", "u", "s", "t", " ", "b", "e", " ", "s", "t", "r", ",", " ",
      "b", "y", "t", "e", "s", " ", "o", "r", " ", "b", "y", "t", "e", "a", "r",
      "r", "a", "y", ",", " ", "n", "o", "t", " ", "N", "o", "n", "e", "T", "y",
      "p", "e">>

\* str(JSONDecodeError): the position is "column off+1 (char off)".
DecodeErrorMsg(what, off) ==
    what \o Digits(off + 1) \o <<" ", "(", "c", "h", "a", "r", " ">> \o Digits(off)
         \o <<")">>

\* The text is a complete array: [ ] or [ object (, object)* ].
IsArray(text) ==
    /\ Len(text) >= 2
    /\ text[1] = TokOpen
    /\ text[Len(text)] = TokClose
    /\ LET inner == SubSeq(text, 2, Len(text) - 1)
       IN  \/ inner = <<>>
           \/ /\ Len(inner) % 2 = 1
              /\ \A i \in 1..Len(inner) :
                    IF i % 2 = 1 THEN inner[i].tok = "object" ELSE inner[i] = TokComma

ArrayValue(text) ==
    LET inner == SubSeq(text, 2, Len(text) - 1)
    IN  [k \in 1..((Len(inner) + 1) \div 2) |-> inner[2 * k - 1].val[1]]

\* off: the character offset at which a cut-short text ends.
json_loads_lenient(text, off) ==
    IF text = NoText
      THEN [ok |-> FALSE, value |-> <<>>, msg |-> NotNoneType]
    ELSE IF IsArray(text)
      THEN [ok |-> TRUE, value |-> ArrayValue(text), msg |-> <<>>]
    ELSE IF text = <<>>
      THEN [ok |-> FALSE, value |-> <<>>, msg |-> DecodeErrorMsg(ExpectingValue, 0)]
    ELSE IF text[Len(text)].tok = "object"
      THEN [ok |-> TRUE, value |-> ArrayValue(text \o <<TokClose>>), msg |-> <<>>]
    ELSE [ok |-> FALSE, value |-> <<>>, msg |-> DecodeErrorMsg(ExpectingValue, off)]
json_loads(text, off) ==
    IF text = NoText
      THEN [ok |-> FALSE, value |-> <<>>, msg |-> NotNoneType]
    ELSE IF IsArray(text)
      THEN [ok |-> TRUE, value |-> ArrayValue(text), msg |-> <<>>]
    ELSE IF text = <<>>
      THEN [ok |-> FALSE, value |-> <<>>, msg |-> DecodeErrorMsg(ExpectingValue, 0)]
    ELSE IF text[Len(text)].tok = "object"
      THEN [ok |-> FALSE, value |-> <<>>, msg |-> DecodeErrorMsg(ExpectingDelimiter, off)]
    ELSE [ok |-> FALSE, value |-> <<>>, msg |-> DecodeErrorMsg(ExpectingValue, off)]

(***************************************************************************)
(* The retry loop of generate_notifications.                               *)
(***************************************************************************)
RECURSIVE Pow2(_)
Pow2(n) == IF n = 0 THEN 1 ELSE 2 * Pow2(n - 1)

is_last_attempt_off_by_one(n) == n = max_retries
is_last_attempt(n) == n = max_retries - 1

is_transient_always(error_msg) == TRUE
is_transient(error_msg) == \E code \in retry_codes : Contains(code, error_msg)

sleep_time_linear(n, jitter) == (base_delay * (2 * n)) + jitter
sleep_time(n, jitter) == (base_delay * Pow2(n)) + jitter

HTTPException_from_upstream(e) ==
    [status_code |-> IF Contains(<<"4", "2", "9">>, e) THEN 429 ELSE 500, detail |-> e]
HTTPException(e) == [status_code |-> 500, detail |-> e]

NoResult == [kind |-> "none"]
Returned_first_three(value) ==
    [kind |-> "return", value |-> SubSeq(value, 1, IF Len(value) < 3 THEN Len(value) ELSE 3)]
Returned(value) == [kind |-> "return", value |-> value]
Raised(exc) == [kind |-> "raise", exc |-> exc]

\* Assignment to the loop variable `attempt`, a local of the call for request r.
SetAttempt_shared(att, r, n) == [s \in DOMAIN att |-> n]
SetAttempt(att, r, n) == [att EXCEPT ![r] = n]

\* One iteration of `for attempt in range(max_retries)` begins with index n
\* and calls the collaborator, or the range is exhausted and the function
\* ends without a return statement.
LoopHead(r, n) ==
    IF n < max_retries
      THEN /\ pc' = [pc EXCEPT ![r] = "Attempting"]
           /\ attempt' = SetAttempt(attempt, r, n)
           /\ calls' = [calls EXCEPT ![r] = @ + 1]
           /\ UNCHANGED <<result>>
           /\ loop' = r
      ELSE /\ pc' = [pc EXCEPT ![r] = "FellThrough"]
           /\ result' = [result EXCEPT ![r] = Returned(<<"None">>)]
           /\ loop' = 0
           /\ UNCHANGED <<attempt, calls>>

\* The `except Exception as e` block.
Except(r, error_msg, jitter) ==
    IF is_transient(error_msg) /\ ~is_last_attempt(attempt[r])
      THEN /\ pc' = [pc EXCEPT ![r] = "Sleeping"]
           /\ sleeps' = [sleeps EXCEPT ![r] = Append(@, sleep_time(attempt[r], jitter))]
           /\ UNCHANGED <<result, loop>>
      ELSE /\ pc' = [pc EXCEPT ![r] = "Fatal"]
           /\ result' = [result EXCEPT ![r] = Raised(HTTPException(error_msg))]
           /\ loop' = 0
           /\ UNCHANGED <<sleeps>>

(***************************************************************************)
(* Actions.  The handler is a coroutine without an await: from its start   *)
(* to its end it occupies the event loop (loop = r).                       *)
(***************************************************************************)
\* The event loop starts the handler for a received request.
Start(r) ==
    /\ pc[r] = "Idle"
    /\ loop = 0
    /\ LoopHead(r, 0)
    /\ UNCHANGED <<sleeps, log, snapshot>>

\* generate_content raises an error with message msg.
Raise(r, msg, jitter) ==
    /\ pc[r] = "Attempting"
    /\ log' = [log EXCEPT ![r] = Append(@, [kind |-> "raise", msg |-> msg, text |-> <<>>])]
    /\ Except(r, msg, jitter)
    /\ UNCHANGED <<attempt, calls, snapshot>>

\* generate_content returns a response; its text goes through json.loads.
\* The log keeps, with the text, the message of the error json.loads raised.
Return(r, text, off, jitter) ==
    /\ pc[r] = "Attempting"
    /\ LET parsed == json_loads(text, off)
       IN  /\ log' = [log EXCEPT ![r] =
                         Append(@, [kind |-> "return", msg |-> parsed.msg, text |-> text])]
           /\ IF parsed.ok
                THEN /\ pc' = [pc EXCEPT ![r] = "Success"]
                     /\ result' = [result EXCEPT ![r] = Returned(parsed.value)]
                     /\ loop' = 0
                     /\ UNCHANGED <<sleeps>>
                ELSE Except(r, parsed.msg, jitter)
    /\ UNCHANGED <<attempt, calls, snapshot>>

\* time.sleep(sleep_time) returns and the loop goes on to the next index.
Wake(r) ==
    /\ pc[r] = "Sleeping"
    /\ LoopHead(r, attempt[r] + 1)
    /\ UNCHANGED <<sleeps, log, snapshot>>

(***************************************************************************)
(* Specifications.                                                         *)
(***************************************************************************)
InitWith(Rs, Snaps) ==
    /\ pc = [r \in Rs |-> "Idle"]
    /\ attempt = [r \in Rs |-> 0]
    /\ calls = [r \in Rs |-> 0]
    /\ sleeps = [r \in Rs |-> <<>>]
    /\ log = [r \in Rs |-> <<>>]
    /\ result = [r \in Rs |-> NoResult]
    /\ snapshot \in [Rs -> Snaps]
    /\ loop = 0

\* One request, every collaborator outcome.
Init == InitWith({1}, LearnerRequest)

Next ==
    \E r \in DOMAIN pc :
        \/ Start(r)
        \/ \E msg \in ErrorMsgs, j \in Jitter : Raise(r, msg, j)
        \/ \E text \in Texts, off \in ErrOffsets, j \in Jitter : Return(r, text, off, j)
        \/ Wake(r)

Spec == Init /\ [][Next]_vars

\* The steps of the handler for request r, for a set of collaborator outcomes.
HandlerStep(r, Msgs, Bodies, Offs, Jits) ==
    \/ Start(r)
    \/ \E msg \in Msgs, j \in Jits : Raise(r, msg, j)
    \/ \E text \in Bodies, off \in Offs, j \in Jits : Return(r, text, off, j)
    \/ Wake(r)

\* Several requests received by one server process, fewer collaborator outcomes.
ServerRequests == 1..NumRequests
ServerSnapshots ==
    { [payments |-> <<>>, videos |-> <<>>], [payments |-> <<>>, videos |-> <<50>>] }
ServerMsgs == { <<"4", "2", "9", " ", "R", "E", "S">>, <<"4", "0", "0", " ", "I", "N", "V">> }
ServerTexts == { ArrayText(1), <<TokOpen>> }
ServerOffsets == {17}
ServerJitter == {0}

ServerInit == InitWith(ServerRequests, ServerSnapshots)

ServerStep(r) == HandlerStep(r, ServerMsgs, ServerTexts, ServerOffsets, ServerJitter)

ServerNext == \E r \in DOMAIN pc : ServerStep(r)

ServerSpec == ServerInit /\ [][ServerNext]_vars

\* Every collaborator call and every sleep completes, and the event loop,
\* once free, starts a waiting handler.
FairServerSpec == ServerSpec /\ \A r \in ServerRequests : WF_vars(ServerStep(r))

\* One request whose snapshot ranges over every completion of 0..100 and
\* over several payment entries.
BandEdges == {0, 1, 94, 95, 99, 100}
RulesSnapshots ==
    [payments : SeqsUpTo(CourseIds, MaxPayments + 1),
     videos : SeqsUpTo(0..MaxCompletion, 1) \cup SeqsUpTo(BandEdges, MaxVideos)]

RulesInit == InitWith({1}, RulesSnapshots)

RulesSpec == RulesInit /\ [][ServerNext]_vars

\* One request whose first call raises any message of up to MaxMsgLen
\* characters over the digits of the retry codes.
MsgAlphabet == {"0", "2", "3", "4", "5", "9"}
GeneratedMsgs == SeqsUpTo(MsgAlphabet, MaxMsgLen) \cup ErrorMsgs

ClassifyInit == InitWith({1}, ServerSnapshots)

ClassifyNext ==
    \E r \in DOMAIN pc :
        HandlerStep(r, IF attempt[r] = 0 THEN GeneratedMsgs ELSE ServerMsgs,
                    ServerTexts, ErrOffsets, ServerJitter)

ClassifySpec == ClassifyInit /\ [][ClassifyNext]_vars

(***************************************************************************)
(* Vocabulary of the properties.                                           *)
(***************************************************************************)
Requests == DOMAIN pc

Terminal == {"Success", "Fatal"}

\* The message carries one of the status-like codes 429, 500, 503, 504.
HasRetryableCode(msg) ==
    \/ Contains(<<"4", "2", "9">>, msg)
    \/ Contains(<<"5", "0", "0">>, msg)
    \/ Contains(<<"5", "0", "3">>, msg)
    \/ Contains(<<"5", "0", "4">>, msg)

RaisedTransient(entry) == entry.kind = "raise" /\ HasRetryableCode(entry.msg)
RaisedNonTransient(entry) == entry.kind = "raise" /\ ~HasRetryableCode(entry.msg)

\* The drafts of a complete array of n objects, as the collaborator wrote them.
DraftsOf(n) == [i \in 1..n |-> Draft(i)]

TypeOK ==
    /\ pc \in [Requests -> {"Idle", "Attempting", "Sleeping", "Success", "Fatal", "FellThrough"}]
    /\ attempt \in [Requests -> Nat]
    /\ calls \in [Requests -> Nat]
    /\ loop \in Requests \cup {0}
    /\ \A r \in Requests : snapshot[r] \in LearnerRequest

(***************************************************************************)
(* C1.  Whatever the collaborator's outcomes, it is invoked at most 3      *)
(* times for one request.                                                  *)
(***************************************************************************)
C1_AtMostThreeCalls ==
    \A r \in Requests : calls[r] <= 3 /\ Len(log[r]) <= calls[r]

C1_Witness ==
    \E r \in Requests : calls[r] = 3 /\ Len(log[r]) = 3 /\ pc[r] \in Terminal

(***************************************************************************)
(* C2.  If the collaborator raises a transient-coded error on the first    *)
(* two calls and returns a complete array on the third, the request ends   *)
(* in Success with that array as result, after exactly 3 invocations and   *)
(* exactly 2 sleeps, the sleep after failed attempt k lasting at least     *)
(* 1000 * 2^k ms.                                                          *)
(***************************************************************************)
C2_Case(r) ==
    /\ Len(log[r]) = 3
    /\ RaisedTransient(log[r][1])
    /\ RaisedTransient(log[r][2])
    /\ log[r][3].kind = "return"
    /\ log[r][3].text \in WellFormedTexts

C2_TwiceTransientThenSuccess ==
    \A r \in Requests :
        C2_Case(r) =>
            /\ pc[r] = "Success"
            /\ \E n \in 0..MaxDrafts :
                  /\ log[r][3].text = ArrayText(n)
                  /\ result[r] = [kind |-> "return", value |-> DraftsOf(n)]
            /\ calls[r] = 3
            /\ Len(sleeps[r]) = 2
            /\ \A k \in 0..1 : sleeps[r][k + 1] >= 1000 * Pow2(k)

C2_Witness ==
    \E r \in Requests : C2_Case(r) /\ sleeps[r] = <<1000, 2000>>

(***************************************************************************)
(* C3.  A non-transient error raised by the collaborator on any attempt    *)
(* ends the request at that attempt: it is the last outcome, the request   *)
(* is Fatal, and neither a further invocation nor a sleep follows (on the  *)
(* first call: 1 invocation, 0 sleeps).                                    *)
(***************************************************************************)
C3_NonTransientFailsAtOnce ==
    \A r \in Requests :
        \A i \in 1..Len(log[r]) :
            RaisedNonTransient(log[r][i]) =>
                /\ i = Len(log[r])
                /\ pc[r] = "Fatal"
                /\ calls[r] = i
                /\ Len(sleeps[r]) = i - 1

C3_Witness ==
    \E r \in Requests :
        /\ Len(log[r]) = 1
        /\ RaisedNonTransient(log[r][1])
        /\ calls[r] = 1
        /\ sleeps[r] = <<>>

(***************************************************************************)
(* C4.  When every call of the collaborator fails transiently, the request *)
(* is Fatal exactly when the third attempt has failed, after exactly 3     *)
(* invocations; before that it is attempting or sleeping.                  *)
(***************************************************************************)
C4_Case(r) ==
    /\ Len(log[r]) >= 1
    /\ \A i \in 1..Len(log[r]) : RaisedTransient(log[r][i])

C4_AlwaysTransientFailsAfterThree ==
    \A r \in Requests :
        C4_Case(r) =>
            /\ Len(log[r]) <= 3
            /\ calls[r] <= 3
            /\ (Len(log[r]) = 3) <=> (pc[r] = "Fatal")
            /\ pc[r] = "Fatal" => calls[r] = 3 /\ Len(sleeps[r]) = 2
            /\ pc[r] # "Fatal" => pc[r] \in {"Attempting", "Sleeping"}

C4_Witness ==
    \E r \in Requests : C4_Case(r) /\ Len(log[r]) = 3 /\ pc[r] = "Fatal"

(***************************************************************************)
(* C5.  For a snapshot with empty payments and empty videos the request    *)
(* returns an empty result at once and the collaborator is never invoked.  *)
(***************************************************************************)
EmptySnapshot(r) == snapshot[r].payments = <<>> /\ snapshot[r].videos = <<>>

C5_EmptySnapshotSkipsCollaborator ==
    \A r \in Requests :
        EmptySnapshot(r) =>
            /\ calls[r] = 0
            /\ pc[r] \in {"Idle", "Success"}
            /\ pc[r] = "Success" => result[r] = [kind |-> "return", value |-> <<>>]

(***************************************************************************)
(* C6.  Every failed request raises one failure with status 500, whatever  *)
(* code the upstream error carried; its message is the text of the last    *)
(* error the collaborator raised.                                          *)
(***************************************************************************)
LastOutcome(r) == log[r][Len(log[r])]

C6_FailureIsStatus500 ==
    \A r \in Requests :
        pc[r] = "Fatal" =>
            /\ result[r].kind = "raise"
            /\ result[r].exc.status_code = 500
            /\ Len(log[r]) >= 1
            /\ LastOutcome(r).kind = "raise" => result[r].exc.detail = LastOutcome(r).msg

C6_Witness ==
    \E r \in Requests :
        /\ pc[r] = "Fatal"
        /\ Len(log[r]) = 3
        /\ LastOutcome(r).kind = "raise"
        /\ Contains(<<"4", "2", "9">>, LastOutcome(r).msg)
        /\ result[r].exc.status_code = 500

(***************************************************************************)
(* C7.  Every result returned on success is an array of 1 to 3 drafts,     *)
(* each with the fields id, title, body, sendNow, type and a type of the   *)
(* enum; any other request fails with a surfaced error.                    *)
(***************************************************************************)
IsDraft(d) ==
    /\ DOMAIN d = {"id", "title", "body", "sendNow", "type"}
    /\ d.sendNow \in BOOLEAN
    /\ d.type \in {"milestone", "reminder", "alert", "promotion", "engagement"}

C7_SuccessIsOneToThreeDrafts ==
    \A r \in Requests :
        /\ pc[r] = "Success" =>
              /\ result[r].kind = "return"
              /\ Len(result[r].value) \in 1..3
              /\ \A i \in 1..Len(result[r].value) : IsDraft(result[r].value[i])
        /\ result[r].kind = "return" => pc[r] = "Success"

(***************************************************************************)
(* C8.  While one request waits out its retry delay, every other request   *)
(* that has not ended can take its next step.                              *)
(***************************************************************************)
C8_SleepDoesNotStallOthers ==
    \A r \in Requests, s \in Requests :
        (r # s /\ pc[r] = "Sleeping" /\ pc[s] \notin Terminal) => ENABLED ServerStep(s)

(***************************************************************************)
(* C9.  Retry state is per request: a step of one request changes nothing  *)
(* of another request, and the number of invocations and the outcome of a  *)
(* request follow from the outcomes of its own collaborator calls alone    *)
(* (it fails before its third call only on a non-retryable error of its    *)
(* own).                                                                   *)
(***************************************************************************)
Local(r) == <<pc[r], attempt[r], calls[r], sleeps[r], log[r], result[r], snapshot[r]>>

OwnOutcomesDecide(r) ==
    /\ pc[r] \in Terminal => calls[r] = Len(log[r])
    /\ pc[r] \in {"Attempting"} => calls[r] = Len(log[r]) + 1 /\ attempt[r] = Len(log[r])
    /\ pc[r] = "Sleeping" => calls[r] = Len(log[r]) /\ attempt[r] = Len(log[r]) - 1
    /\ (pc[r] = "Fatal" /\ calls[r] < 3) =>
          \/ RaisedNonTransient(LastOutcome(r))
          \/ LastOutcome(r).kind = "return"
    /\ \A i \in 1..(Len(log[r]) - 1) :
          RaisedTransient(log[r][i]) \/ log[r][i].kind = "return"

C9_RetryStateIsPerRequest ==
    /\ [](\A r \in Requests : OwnOutcomesDecide(r))
    /\ [][\A r \in Requests :
            ServerStep(r) => \A s \in Requests \ {r} : Local(s)' = Local(s)]_vars

C9_Witness ==
    \E r \in Requests, s \in Requests :
        /\ r # s
        /\ pc[r] = "Fatal" /\ calls[r] = 1
        /\ pc[s] = "Fatal" /\ calls[s] = 3 /\ attempt[s] = 2

(***************************************************************************)
(* C10.  If every collaborator call and every sleep completes, every       *)
(* request eventually reaches Success or Fatal.                            *)
(***************************************************************************)
C10_EveryRequestTerminates ==
    \A r \in ServerRequests : <>(pc[r] \in Terminal)

C10_Witness ==
    /\ \A r \in Requests : pc[r] \in Terminal
    /\ \E r \in Requests : Len(sleeps[r]) = 2
    /\ Cardinality(Requests) >= 2

(***************************************************************************)
(* C11.  Amended: the rules sent with the snapshot put every video entry   *)
(* (completion in 0..100) into exactly one band: completion = 0 is Start   *)
(* Watching with priority Low, completion in 1..99 is Resume Watching with *)
(* priority High, completion = 100 is Completion Celebration with priority *)
(* Medium.                                                                 *)
(***************************************************************************)
\* The event the specification names for a rule of the instruction.
EventOf(ru) ==
    [eventType |-> CASE ru.rule = "Start Watching" -> "video_start"
                     [] ru.rule = "Resume Watching" -> "video_resume"
                     [] ru.rule = "Completion Celebration" -> "video_milestone"
                     [] OTHER -> "payment_promotion",
     priority |-> ru.priority]

VideoEvents(completion) == { EventOf(ru) : ru \in VideoRules(completion) }

\* The band of a completion, with the milestone band beginning at `from`.
Band(completion, from) ==
    IF completion = 0 THEN [eventType |-> "video_start", priority |-> "Low"]
    ELSE IF completion < from THEN [eventType |-> "video_resume", priority |-> "High"]
    ELSE [eventType |-> "video_milestone", priority |-> "Medium"]

Sent(r) == calls[r] >= 1

PaymentsFirst(payload) ==
    \A i \in 1..Len(payload), j \in 1..Len(payload) :
        (payload[i].field = "payments" /\ payload[j].field = "videos") => i < j

PayloadKeepsEntries(r) ==
    LET payload == payload_str(snapshot[r])
    IN  /\ Len(payload) = Len(snapshot[r].payments) + Len(snapshot[r].videos)
        /\ Cardinality({ i \in 1..Len(payload) : payload[i].field = "payments" })
              = Len(snapshot[r].payments)

Failed(entry) ==
    \/ entry.kind = "raise"
    \/ entry.kind = "return" /\ entry.text \notin WellFormedTexts

TransientFailure(entry) == Failed(entry) /\ HasRetryableCode(entry.msg)

SleepsOnlyAfterTransient(r) ==
    /\ Len(sleeps[r]) <= 2
    /\ Len(sleeps[r]) <= Len(log[r])
    /\ pc[r] = "Idle" => sleeps[r] = <<>>
    /\ \A k \in 1..Len(sleeps[r]) : TransientFailure(log[r][k])
    /\ \A i \in 1..Len(log[r]) :
          (i = 3 \/ ~TransientFailure(log[r][i])) => Len(sleeps[r]) < i
    /\ pc[r] = "Sleeping" <=> (Len(log[r]) >= 1 /\ Len(sleeps[r]) = Len(log[r]) /\ calls[r] = Len(log[r]))
    /\ pc[r] \in Terminal => Len(sleeps[r]) = calls[r] - 1

C13_SleepsBetweenAttemptsOnly ==
    /\ [](\A r \in Requests : SleepsOnlyAfterTransient(r))
    /\ [][\A r \in Requests :
            (pc[r] = "Sleeping" /\ pc'[r] # "Sleeping") =>
                /\ pc'[r] = "Attempting"
                /\ attempt'[r] = attempt[r] + 1
                /\ calls'[r] = calls[r] + 1
                /\ sleeps'[r] = sleeps[r]]_vars

C13_Witness ==
    \E r \in Requests :
        /\ pc[r] = "Success"
        /\ calls[r] = 3
        /\ Len(sleeps[r]) = 2
        /\ log[r][2].kind = "return"

(***************************************************************************)
(* C14.  The sleep after the transient failure of attempt k (k = 0, 1)     *)
(* lasts between 1000 * 2^k and 1000 * 2^k + 500 ms: 1000..1500 ms, then   *)
(* 2000..2500 ms.  The second sleep is longer than the first and one       *)
(* request never sleeps more than 4000 ms in total.                        *)
(***************************************************************************)
RECURSIVE SumOf(_)
SumOf(seq) == IF seq = <<>> THEN 0 ELSE seq[1] + SumOf(Tail(seq))

C14_BackoffWindow ==
    \A r \in Requests :
        /\ \A k \in 0..(Len(sleeps[r]) - 1) :
              /\ sleeps[r][k + 1] >= 1000 * Pow2(k)
              /\ sleeps[r][k + 1] <= 1000 * Pow2(k) + 500
        /\ Len(sleeps[r]) >= 1 => sleeps[r][1] \in 1000..1500
        /\ Len(sleeps[r]) >= 2 => sleeps[r][2] \in 2000..2500 /\ sleeps[r][2] > sleeps[r][1]
        /\ SumOf(sleeps[r]) <= 4000

C14_Witness ==
    \E r \in Requests : sleeps[r] = <<1500, 2500>> /\ pc[r] \in Terminal

(***************************************************************************)
(* C15.  An attempt's error is classified transient (a sleep and a retry   *)
(* follow, when it is not the last attempt) if and only if its message     *)
(* contains 429, 500, 503 or 504 as a substring; every other error is      *)
(* non-transient and ends the request.                                     *)
(***************************************************************************)
\* Three consecutive characters of msg spell one of the four codes.
SpellsCode(msg) ==
    \E i \in 1..(Len(msg) - 2) :
        <<msg[i], msg[i + 1], msg[i + 2]>> \in
            { <<"4", "2", "9">>, <<"5", "0", "0">>, <<"5", "0", "3">>, <<"5", "0", "4">> }

\* The failure of attempt i - 1 was followed by a sleep.
Retried(r, i) == Len(sleeps[r]) >= i

C15_TransientIffCodeInMessage ==
    \A r \in Requests :
        \A i \in 1..Len(log[r]) :
            (Failed(log[r][i]) /\ i < 3) =>
                /\ Retried(r, i) <=> SpellsCode(log[r][i].msg)
                /\ ~SpellsCode(log[r][i].msg) => (pc[r] = "Fatal" /\ i = Len(log[r]))

C15_Witness ==
    \E r \in Requests :
        /\ Len(log[r]) >= 1
        /\ log[r][1].kind = "raise"
        /\ log[r][1].msg = <<"0", "5", "0", "4">>
        /\ Retried(r, 1)

C15_WitnessNonTransient ==
    \E r \in Requests :
        /\ Len(log[r]) = 1
        /\ log[r][1].msg = <<"4", "0", "4">>
        /\ pc[r] = "Fatal"

(***************************************************************************)
(* C16.  Each request follows Idle -> Attempting(n) -> Success, Fatal or   *)
(* a retry wait leading to Attempting(n + 1), n in {0, 1, 2}: the attempts *)
(* are made in the order 0, 1, 2, attempt n + 1 starts only after attempt  *)
(* n failed transiently, and Success and Fatal are absorbing.              *)
(***************************************************************************)
C16_State(r) ==
    /\ pc[r] \in {"Idle", "Attempting", "Sleeping", "Success", "Fatal"}
    /\ pc[r] = "Idle" => calls[r] = 0 /\ log[r] = <<>>
    /\ pc[r] = "Attempting" =>
          /\ attempt[r] \in 0..2
          /\ calls[r] = attempt[r] + 1
          /\ Len(log[r]) = attempt[r]
          /\ \A i \in 1..attempt[r] : TransientFailure(log[r][i])
    /\ pc[r] = "Sleeping" => attempt[r] \in 0..1 /\ Len(log[r]) = attempt[r] + 1
    /\ pc[r] \in Terminal => Len(log[r]) = attempt[r] + 1 /\ attempt[r] \in 0..2

C16_Transition(r) ==
    \/ Local(r)' = Local(r)
    \/ /\ pc[r] = "Idle"
       /\ pc'[r] = "Attempting" /\ attempt'[r] = 0 /\ calls'[r] = 1
    \/ /\ pc[r] = "Attempting"
       /\ pc'[r] \in {"Success", "Fatal"}
       /\ attempt'[r] = attempt[r] /\ calls'[r] = calls[r]
       /\ pc'[r] = "Success" <=> ~Failed(log'[r][Len(log'[r])])
    \/ /\ pc[r] = "Attempting"
       /\ pc'[r] = "Sleeping"
       /\ attempt'[r] = attempt[r] /\ calls'[r] = calls[r]
       /\ TransientFailure(log'[r][Len(log'[r])])
    \/ /\ pc[r] = "Sleeping"
       /\ pc'[r] = "Attempting" /\ attempt'[r] = attempt[r] + 1 /\ calls'[r] = calls[r] + 1
       /\ log'[r] = log[r]

C16_StateMachine ==
    /\ [](\A r \in Requests : C16_State(r))
    /\ [][\A r \in Requests : C16_Transition(r)]_vars

C16_Witness ==
    \E r \in Requests :
        /\ pc[r] = "Attempting"
        /\ attempt[r] = 2
        /\ TransientFailure(log[r][1])
        /\ TransientFailure(log[r][2])

(***************************************************************************)
(* C17.  On success the result is exactly the parse of the body of the     *)
(* successful call: the drafts of that body, all of them, in their order,  *)
(* with no schema check (an array of no draft or of more than 3 drafts is  *)
(* returned as it is).                                                     *)
(***************************************************************************)
C17_ResultIsTheParsedBody ==
    \A r \in Requests :
        pc[r] = "Success" =>
            /\ LastOutcome(r).kind = "return"
            /\ \E n \in 0..MaxDrafts :
                  /\ LastOutcome(r).text = ArrayText(n)
                  /\ result[r] = [kind |-> "return", value |-> DraftsOf(n)]

C17_Witness ==
    \E r \in Requests :
        /\ pc[r] = "Success"
        /\ LastOutcome(r).text = ArrayText(4)
        /\ Len(result[r].value) = 4

(***************************************************************************)
(* C18.  A call that returns a body json.loads cannot parse never yields   *)
(* Success: the parse error is handled like an error raised by the         *)
(* collaborator.  It consumes the attempt; if its message contains 429,    *)
(* 500, 503 or 504 and the attempt is not the last, a backoff sleep and a  *)
(* retry follow; otherwise the request fails with status 500 and that      *)
(* message.                                                                *)
(***************************************************************************)
ParseFailure(entry) == entry.kind = "return" /\ entry.text \notin WellFormedTexts

\* How the failure of attempt i - 1 of request r is handled.
HandledAsError(r, i) ==
    /\ calls[r] >= i
    /\ IF i < 3 /\ SpellsCode(log[r][i].msg)
         THEN /\ Retried(r, i)
              /\ sleeps[r][i] >= 1000 * Pow2(i - 1)
              /\ Len(log[r]) = i => pc[r] = "Sleeping" \/ (pc[r] = "Attempting" /\ calls[r] = i + 1)
         ELSE /\ i = Len(log[r])
              /\ pc[r] = "Fatal"
              /\ result[r] = [kind |-> "raise",
                              exc |-> [status_code |-> 500, detail |-> log[r][i].msg]]

C18_ParseFailureIsAnAttemptError ==
    \A r \in Requests :
        \A i \in 1..Len(log[r]) :
            /\ ParseFailure(log[r][i]) =>
                  /\ log[r][i].msg # <<>>
                  /\ ~(pc[r] = "Success" /\ i = Len(log[r]))
                  /\ HandledAsError(r, i)
            /\ log[r][i].kind = "raise" => HandledAsError(r, i)

C18_Witness ==
    \E r \in Requests :
        /\ Len(log[r]) = 2
        /\ ParseFailure(log[r][1])
        /\ Contains(<<"4", "2", "9">>, log[r][1].msg)
        /\ Retried(r, 1)
        /\ ParseFailure(log[r][2])
        /\ pc[r] = "Fatal"

(***************************************************************************)
(* C19.  No request ends by falling out of the retry loop: a completed     *)
(* request either returned the parsed result of a successful attempt or    *)
(* raised the status-500 failure, never a null result without an error.    *)
(***************************************************************************)
Completed(r) == pc[r] \notin {"Idle", "Attempting", "Sleeping"}

C19_NoFallThrough ==
    \A r \in Requests :
        /\ pc[r] # "FellThrough"
        /\ Completed(r) <=> result[r].kind \in {"return", "raise"}
        /\ Completed(r) => loop # r
        /\ result[r].kind = "return" =>
              /\ pc[r] = "Success"
              /\ ~Failed(LastOutcome(r))
              /\ \A i \in 1..Len(result[r].value) : IsDraft(result[r].value[i])
        /\ result[r].kind = "raise" =>
              /\ pc[r] = "Fatal"
              /\ result[r].exc.status_code = 500
              /\ Failed(LastOutcome(r))

C19_Witness ==
    \E r \in Requests :
        /\ Len(log[r]) = 3
        /\ TransientFailure(log[r][3])
        /\ Completed(r)
        /\ result[r].kind = "raise"

====
